---- MODULE Spec2Model ----
(***************************************************************************)
(* QInterProcessChannel (src/src/qcumber/qinterprocesschannel.cpp): the    *)
(* single-instance channel of qcumber.  Several processes of one           *)
(* application share a registry file <tmp>/<app>rc; each runs init(),      *)
(* which binds a provisional listener, probes the endpoint the registry    *)
(* names and then keeps the listener (server role) or drops it (client     *)
(* role).  Every step of init() that touches the file system or the        *)
(* network is one action, so elections of different processes interleave.  *)
(***************************************************************************)
EXTENDS Integers, Sequences, FiniteSets, TLC

\* ---------------------------------------------------------------- bounds
NumProcs == 2        \* processes of the same application identity
MaxPort == 2         \* ephemeral ports the host hands out: 1..MaxPort
MaxInits == 3        \* init() runs (constructor or reconnect()), all processes
MaxCrashes == 1      \* process crashes
MaxSends == 1        \* sendMessage() calls, all processes
MaxConns == 2        \* client sockets of sendMessage()/check() in flight

Procs == 1..NumProcs
Ports == 1..MaxPort

\* Endpoints of other programs, for a registry file left behind on a host
\* where the recorded port now belongs to something else.
MutePort == MaxPort + 1      \* accepts the connection, never answers
NoisyPort == MaxPort + 2     \* answers the probe with other bytes
ForeignPorts == {MutePort, NoisyPort}

LocalHost == "127.0.0.1"     \* QHostAddress::LocalHost
NullAddr == ""               \* QHostAddress(), isNull()
Alive == "[ALIVE]"
Garbage == "[?]"

VARIABLES
    pc,         \* per process: "off", "idle", or the position inside init()
    pServer,    \* per process: pServer != 0
    srvPort,    \* per process: pServer->serverPort(), 0 when not listening
    m_port,     \* per process: m_port
    m_addr,     \* per process: m_addr
    found,      \* per process: what QFile::exists(ini) returned at line 235
    ok,         \* per process: init()'s local ok
    probe,      \* per process: init()'s local pSocket
    timer,      \* per process: "none", "starting" (start() called, run() not
                \*   yet executed), "on" (pServerTimer running in exec())
    owner,      \* per port: the process whose QTcpServer listens on it, 0 if free
    file,       \* the registry file
    conns,      \* the sockets sendMessage() and check() created and left open
    step,       \* the handler the last step ran and what it emitted
    disturbed,  \* per process: another process changed the registry file
                \*   since this process entered init()
    inits, crashes, sends

vars == <<pc, pServer, srvPort, m_port, m_addr, found, ok, probe, timer,
          owner, file, conns, step, disturbed, inits, crashes, sends>>

\* What the program itself holds: everything but the record of the last step
\* and the call budgets.
progVars == <<pc, pServer, srvPort, m_port, m_addr, found, ok, probe, timer,
              owner, file, conns>>

\* ---------------------------------------------------------- registry file
NoFile == [exists |-> FALSE, port |-> 0, addr |-> NullAddr]

Entry(port, addr) == [exists |-> TRUE, port |-> port, addr |-> addr]

\* QHostAddress(const QString&): a dotted quad parses, anything else is null.
ParseAddr(s) == IF s = LocalHost THEN LocalHost ELSE NullAddr

\* QHostAddress::toString()
AddrToString(a) == a

\* QSettings::value("port").toUInt() and value("address").toString() of a file
\* that may have vanished since QFile::exists(): a missing key reads as 0 / "".
ReadPort(f) == IF f.exists THEN f.port ELSE 0

ReadAddr(f) == IF f.exists THEN ParseAddr(f.addr) ELSE NullAddr

\* --------------------------------------------------------------- sockets
NoProbe == [to |-> 0, st |-> "none", sent |-> FALSE, reply |-> ""]

NoConn == [kind |-> "none", from |-> 0, to |-> 0, data |-> <<>>, st |-> "none"]

ConnIds == 1..MaxConns

FreePorts == {k \in Ports : owner[k] = 0}

\* A TCP connect to 127.0.0.1:port succeeds when something listens there,
\* whether or not the listener's owner ever accepts.
Listening(port) == port \in ForeignPorts \/ (port \in Ports /\ owner[port] # 0)

OwnerOf(port) == IF port \in Ports THEN owner[port] ELSE 0

\* The ports a set of closed listeners held: their queued and accepted
\* connections are reset.
ResetProbes(pr, ports, dead) ==
    [q \in Procs |->
        IF q \in dead THEN NoProbe
        ELSE IF pr[q].st \in {"pending", "accepted", "stuck"} /\ pr[q].to \in ports
             THEN [pr[q] EXCEPT !.st = "reset", !.reply = ""]
             ELSE pr[q]]

ResetConns(cs, ports, dead) ==
    [c \in ConnIds |->
        IF cs[c].from \in dead \/ cs[c].to \in ports THEN NoConn ELSE cs[c]]

\* ------------------------------------------------------- the last step
\* op: the handler; proc: the process it ran in; srv: isServer() on entry;
\* emits: the signals emitted, in order; payload: the argument of message()
\* or request(); line: the command line handled or sent; reply: what was
\* written back; port: the endpoint addressed; listen: the port of the
\* process's own listener; from: the client process of the connection;
\* via: "probe" for a line init() sent, "send" for one sendMessage() sent;
\* n: a count; rep: the same call, by the same process, was the step before.
Step(op, p) ==
    [op |-> op, proc |-> p, srv |-> pServer[p], emits |-> <<>>,
     payload |-> <<>>, line |-> <<>>, reply |-> "", rep |-> FALSE, port |-> 0,
     found |-> FALSE, ok |-> FALSE, clean |-> FALSE, n |-> 0, from |-> 0,
     listen |-> 0, via |-> ""]

\* Processes inside init() other than p see the registry file change.
Disturb(p, changed) ==
    [q \in Procs |->
        disturbed[q] \/ (changed /\ q # p /\ pc[q] \notin {"off", "idle"})]

\* ------------------------------------------------------------------ init
Init ==
    /\ pc = [p \in Procs |-> "off"]
    /\ pServer = [p \in Procs |-> FALSE]
    /\ srvPort = [p \in Procs |-> 0]
    /\ m_port = [p \in Procs |-> 0]
    /\ m_addr = [p \in Procs |-> LocalHost]
    /\ found = [p \in Procs |-> FALSE]
    /\ ok = [p \in Procs |-> TRUE]
    /\ probe = [p \in Procs |-> NoProbe]
    /\ timer = [p \in Procs |-> "none"]
    /\ owner = [k \in Ports |-> 0]
    /\ file \in {NoFile,
                 Entry(1, LocalHost),          \* left by a crashed server
                 Entry(MutePort, LocalHost),
                 Entry(NoisyPort, LocalHost),
                 Entry(0, LocalHost),          \* corrupt: no port
                 Entry(1, "localhost?")}       \* corrupt: address does not parse
    /\ conns = [c \in ConnIds |-> NoConn]
    /\ step = [op |-> "none", proc |-> 0, srv |-> FALSE, emits |-> <<>>,
               payload |-> <<>>, line |-> <<>>, reply |-> "", rep |-> FALSE,
               port |-> 0, found |-> FALSE, ok |-> FALSE, clean |-> FALSE,
               n |-> 0, from |-> 0, listen |-> 0, via |-> ""]
    /\ disturbed = [p \in Procs |-> FALSE]
    /\ inits = 0
    /\ crashes = 0
    /\ sends = 0

\* ------------------------------------------------ init(), lines 211-295
\* QTcpServer::listen(LocalHost, 0): the host picks any free port; with none
\* left listen() fails and the server object stays unbound (serverPort() = 0).
BindChoices == IF FreePorts = {} THEN {0} ELSE FreePorts

\* Lines 213-233.  The worker loop is quit and the timer deleted; the server
\* object pServer pointed to is neither closed nor deleted, so a listener the
\* process already had stays bound.
InitBind(p) ==
    /\ pc[p] \in {"off", "idle"}
    /\ timer[p] # "starting"
    /\ inits < MaxInits
    /\ inits' = inits + 1
    /\ \E k \in BindChoices :
         /\ srvPort' = [srvPort EXCEPT ![p] = k]
         /\ owner' = IF k = 0 THEN owner ELSE [owner EXCEPT ![k] = p]
    /\ pServer' = [pServer EXCEPT ![p] = TRUE]
    /\ timer' = [timer EXCEPT ![p] = "none"]
    /\ m_port' = [m_port EXCEPT ![p] = 0]
    /\ m_addr' = [m_addr EXCEPT ![p] = LocalHost]
    /\ found' = [found EXCEPT ![p] = FALSE]
    /\ ok' = [ok EXCEPT ![p] = TRUE]
    /\ probe' = [probe EXCEPT ![p] = NoProbe]
    /\ disturbed' = [disturbed EXCEPT ![p] = FALSE]
    /\ pc' = [pc EXCEPT ![p] = "exists1"]
    /\ step' = Step("init", p)
    /\ UNCHANGED <<file, conns, crashes, sends>>

\* Line 235.
InitExists(p) ==
    /\ pc[p] = "exists1"
    /\ found' = [found EXCEPT ![p] = file.exists]
    /\ pc' = [pc EXCEPT ![p] = IF file.exists THEN "read" ELSE "exists2"]
    /\ step' = Step("init", p)
    /\ UNCHANGED <<pServer, srvPort, m_port, m_addr, ok, probe, timer, owner,
                   file, conns, disturbed, inits, crashes, sends>>

\* The test of the port alone.
Probeable_PortOnly(f) == ReadPort(f) # 0

\* Line 249: !m_addr.isNull() && m_port, on the values read at lines 244-245.
Probeable(f) == ReadAddr(f) # NullAddr /\ ReadPort(f) # 0

\* Lines 242-249 and 259-261.
InitRead(p) ==
    /\ pc[p] = "read"
    /\ m_port' = [m_port EXCEPT ![p] = ReadPort(file)]
    /\ m_addr' = [m_addr EXCEPT ![p] = ReadAddr(file)]
    /\ IF Probeable(file)
       THEN /\ pc' = [pc EXCEPT ![p] = "connect"]
            /\ ok' = ok
       ELSE /\ pc' = [pc EXCEPT ![p] = "remove"]
            /\ ok' = [ok EXCEPT ![p] = FALSE]
    /\ step' = Step("init", p)
    /\ UNCHANGED <<pServer, srvPort, found, probe, timer, owner, file, conns,
                   disturbed, inits, crashes, sends>>

\* Lines 251-252: connectToHost, waitForConnected.
InitConnect(p) ==
    /\ pc[p] = "connect"
    /\ IF Listening(m_port[p])
       THEN /\ probe' = [probe EXCEPT ![p] =
                           [to |-> m_port[p], st |-> "pending",
                            sent |-> FALSE, reply |-> ""]]
            /\ pc' = [pc EXCEPT ![p] = "write"]
            /\ ok' = ok
       ELSE /\ probe' = probe
            /\ pc' = [pc EXCEPT ![p] = "remove"]
            /\ ok' = [ok EXCEPT ![p] = FALSE]
    /\ step' = Step("init", p)
    /\ UNCHANGED <<pServer, srvPort, m_port, m_addr, found, timer, owner, file,
                   conns, disturbed, inits, crashes, sends>>

\* ok &= n, with ok a bool and n a qint64: ok is promoted to 0/1 and the
\* result keeps bit 0 of n (in two's complement -1 has bit 0 set).
AndAssign(b, n) == b /\ (n % 2 = 1)

\* QTcpSocket::write("--check"): the byte count, or -1 on a socket the peer reset.
WriteResult(up) == IF up THEN 7 ELSE -1

\* Lines 254-255: write, waitForBytesWritten.  The probe reaches a foreign
\* endpoint at once; NoisyPort answers with other bytes.
InitWrite(p) ==
    /\ pc[p] = "write"
    /\ LET up == probe[p].st # "reset"
           okw == AndAssign(ok[p], WriteResult(up)) /\ up
       IN /\ ok' = [ok EXCEPT ![p] = okw]
          /\ pc' = [pc EXCEPT ![p] = IF okw THEN "wait" ELSE "remove"]
          /\ probe' = [probe EXCEPT ![p] =
                         IF okw
                         THEN [probe[p] EXCEPT
                                 !.sent = TRUE,
                                 !.reply = IF probe[p].to = NoisyPort
                                           THEN Garbage ELSE ""]
                         ELSE probe[p]]
    /\ step' = Step("init", p)
    /\ UNCHANGED <<pServer, srvPort, m_port, m_addr, found, timer, owner, file,
                   conns, disturbed, inits, crashes, sends>>

\* Lines 256-257: waitForReadyRead returned true, readAll() == "[ALIVE]".
InitReply(p) ==
    /\ pc[p] = "wait"
    /\ probe[p].reply # ""
    /\ ok' = [ok EXCEPT ![p] = (probe[p].reply = Alive)]
    /\ pc' = [pc EXCEPT ![p] = "remove"]
    /\ step' = Step("init", p)
    /\ UNCHANGED <<pServer, srvPort, m_port, m_addr, found, probe, timer, owner,
                   file, conns, disturbed, inits, crashes, sends>>

\* Line 256: waitForReadyRead returned false, on its timeout or on a reset.
InitTimeout(p) ==
    /\ pc[p] = "wait"
    /\ probe[p].reply = ""
    /\ ok' = [ok EXCEPT ![p] = FALSE]
    /\ pc' = [pc EXCEPT ![p] = "remove"]
    /\ step' = Step("init", p)
    /\ UNCHANGED <<pServer, srvPort, m_port, m_addr, found, probe, timer, owner,
                   file, conns, disturbed, inits, crashes, sends>>

\* The file removed whatever the probe said, and never removed.
RemoveStale_Always(p) == TRUE

RemoveStale_Never(p) == FALSE

\* Line 263: the file is removed when the probe failed.
RemoveStale(p) == ~ok[p]

\* Lines 263-269: QFile::remove(ini) if the probe failed; the socket goes.
InitRemove(p) ==
    /\ pc[p] = "remove"
    /\ file' = IF RemoveStale(p) THEN NoFile ELSE file
    /\ disturbed' = Disturb(p, file' # file)
    /\ probe' = [probe EXCEPT ![p] = NoProbe]
    /\ pc' = [pc EXCEPT ![p] = "exists2"]
    /\ step' = Step("init", p)
    /\ UNCHANGED <<pServer, srvPort, m_port, m_addr, found, ok, timer, owner,
                   conns, inits, crashes, sends>>

\* Line 272.
InitDecide(p) ==
    /\ pc[p] = "exists2"
    /\ pc' = [pc EXCEPT ![p] = IF file.exists THEN "follower" ELSE "leader"]
    /\ step' = Step("init", p)
    /\ UNCHANGED <<pServer, srvPort, m_port, m_addr, found, ok, probe, timer,
                   owner, file, conns, disturbed, inits, crashes, sends>>

\* QTcpServer::serverAddress(): the address listened on, null when unbound.
ServerAddress(p) == IF srvPort[p] # 0 THEN LocalHost ELSE NullAddr

\* The entry written from m_port and m_addr before line 277 sets them.
LeaderEntry_Stale(p) == Entry(m_port[p], AddrToString(m_addr[p]))

\* Lines 277-282: what the new server records in the registry file.
LeaderEntry(p) == Entry(srvPort[p], AddrToString(ServerAddress(p)))

\* What the election that just ended went through, kept with its last step:
\* found and ok are locals of init() and end with it.
Elected(p, signals) ==
    [Step("initDone", p) EXCEPT
        !.emits = signals, !.found = found[p], !.ok = ok[p],
        !.clean = ~disturbed[p], !.port = m_port[p], !.listen = srvPort[p]]

\* The two signals of the server branch in the other order.
LeaderSignals_Swapped == <<"serverRoleChanged(true)", "gotServerRole">>

\* Lines 284-285: emit gotServerRole(); emit serverRoleChanged(true).
LeaderSignals == <<"gotServerRole", "serverRoleChanged(true)">>

\* Line 291: emit serverRoleChanged(false).
FollowerSignals == <<"serverRoleChanged(false)">>

\* Lines 277-285 and 294: the server branch, then start().
InitLeader(p) ==
    /\ pc[p] = "leader"
    /\ m_port' = [m_port EXCEPT ![p] = LeaderEntry(p).port]
    /\ m_addr' = [m_addr EXCEPT ![p] = ServerAddress(p)]
    /\ file' = LeaderEntry(p)
    /\ disturbed' = [Disturb(p, file' # file) EXCEPT ![p] = FALSE]
    /\ found' = [found EXCEPT ![p] = FALSE]
    /\ ok' = [ok EXCEPT ![p] = TRUE]
    /\ timer' = [timer EXCEPT ![p] = "starting"]
    /\ pc' = [pc EXCEPT ![p] = "idle"]
    /\ step' = Elected(p, LeaderSignals)
    /\ UNCHANGED <<pServer, srvPort, probe, owner, conns, inits, crashes, sends>>

\* The client branch closes the listener and keeps the pointer.
FollowerServer_Kept(p) == pServer[p]

\* Line 289: pServer after the client branch.
FollowerServer(p) == FALSE

\* Lines 288-291 and 294: the client branch, then start().
InitFollower(p) ==
    /\ pc[p] = "follower"
    /\ owner' = IF srvPort[p] # 0 THEN [owner EXCEPT ![srvPort[p]] = 0] ELSE owner
    /\ probe' = ResetProbes(probe, {srvPort[p]} \ {0}, {})
    /\ conns' = ResetConns(conns, {srvPort[p]} \ {0}, {})
    /\ pServer' = [pServer EXCEPT ![p] = FollowerServer(p)]
    /\ srvPort' = [srvPort EXCEPT ![p] = 0]
    /\ disturbed' = [disturbed EXCEPT ![p] = FALSE]
    /\ found' = [found EXCEPT ![p] = FALSE]
    /\ ok' = [ok EXCEPT ![p] = TRUE]
    /\ timer' = [timer EXCEPT ![p] = "starting"]
    /\ pc' = [pc EXCEPT ![p] = "idle"]
    /\ step' = Elected(p, FollowerSignals)
    /\ UNCHANGED <<m_port, m_addr, file, inits, crashes, sends>>

\* ------------------------------------------------- run(), lines 159-181
\* The worker thread start() launched reads pServer when it gets to run: a
\* server returns at once, a client sets up the 100 ms timer and enters exec().
Run(p) ==
    /\ timer[p] = "starting"
    /\ timer' = [timer EXCEPT ![p] = IF pServer[p] THEN "none" ELSE "on"]
    /\ step' = Step("run", p)
    /\ UNCHANGED <<pc, pServer, srvPort, m_port, m_addr, found, ok, probe,
                   owner, file, conns, disturbed, inits, crashes, sends>>

\* ----------------------------------------------- check(), lines 186-206
FreeConns == {c \in ConnIds : conns[c].kind = "none"}

LowestFree == CHOOSE c \in FreeConns : \A d \in FreeConns : c <= d

\* The socket a client call leaves connected to a listener of this
\* application; one to a foreign endpoint has no further effect here.
Connected(rec) ==
    IF rec.to \in Ports /\ FreeConns # {}
    THEN [conns EXCEPT ![LowestFree] = rec]
    ELSE conns

\* connectionLost() emitted once, and not again by the tick after.
CheckSignals_Once(p, up) ==
    IF up \/ (step.op = "check" /\ step.proc = p /\ step.emits # <<>>)
    THEN <<>>
    ELSE <<"connectionLost">>

\* Lines 193-205: connectionLost() is emitted when the connection fails.
CheckSignals(p, up) == IF up THEN <<>> ELSE <<"connectionLost">>

\* The timer's timeout(), delivered to check() in the main thread.  check()
\* neither sends "--check" nor reads a reply, and never closes its socket.
Tick(p) ==
    /\ timer[p] = "on"
    /\ pc[p] = "idle"
    /\ LET up == m_addr[p] # NullAddr /\ Listening(m_port[p])
       IN /\ conns' = IF up
                      THEN Connected([kind |-> "check", from |-> p,
                                      to |-> m_port[p], data |-> <<>>,
                                      st |-> "pending"])
                      ELSE conns
          /\ step' = [Step("check", p) EXCEPT
                        !.emits = CheckSignals(p, up), !.port = m_port[p],
                        !.rep = (step.op = "check" /\ step.proc = p
                                 /\ step.emits # <<>>)]
    /\ UNCHANGED <<pc, pServer, srvPort, m_port, m_addr, found, ok, probe,
                   timer, owner, file, disturbed, inits, crashes, sends>>

\* ----------------------------------------------- close(), lines 124-135
\* Line 133: close() removes the registry file whenever it had a server.
CloseFile(p) == IF pServer[p] THEN NoFile ELSE file

\* close() deletes the server and keeps the pointer.
ClosedServer_Kept(p) == pServer[p]

\* Line 130: pServer after close().
ClosedServer(p) == FALSE

\* close() touches the server and the file only; the timer and the worker
\* loop are left as they are.  Deleting the server deletes the sockets it
\* accepted.
Close(p) ==
    /\ pc[p] = "idle"
    /\ LET ports == IF pServer[p] THEN {srvPort[p]} \ {0} ELSE {}
           again == step.op = "close" /\ step.proc = p
       IN /\ owner' = [k \in Ports |-> IF k \in ports THEN 0 ELSE owner[k]]
          /\ probe' = ResetProbes(probe, ports, {})
          /\ conns' = ResetConns(conns, ports, {})
          /\ step' = [Step("close", p) EXCEPT
                        !.rep = again,
                        !.srv = IF again THEN step.srv ELSE pServer[p],
                        !.port = IF again THEN step.port ELSE srvPort[p]]
    /\ pServer' = [pServer EXCEPT ![p] = ClosedServer(p)]
    /\ srvPort' = [srvPort EXCEPT ![p] = IF pServer[p] THEN 0 ELSE @]
    /\ file' = CloseFile(p)
    /\ disturbed' = Disturb(p, file' # file)
    /\ UNCHANGED <<pc, m_port, m_addr, found, ok, timer, inits, crashes, sends>>

\* ------------------------------------------------------------ a crash
\* The process dies without cleanup: its sockets go, the registry file stays.
CrashEffects(p) ==
    /\ LET ports == {k \in Ports : owner[k] = p}
       IN /\ owner' = [k \in Ports |-> IF k \in ports THEN 0 ELSE owner[k]]
          /\ probe' = ResetProbes(probe, ports, {p})
          /\ conns' = ResetConns(conns, ports, {p})
    /\ pc' = [pc EXCEPT ![p] = "off"]
    /\ pServer' = [pServer EXCEPT ![p] = FALSE]
    /\ srvPort' = [srvPort EXCEPT ![p] = 0]
    /\ m_port' = [m_port EXCEPT ![p] = 0]
    /\ m_addr' = [m_addr EXCEPT ![p] = LocalHost]
    /\ found' = [found EXCEPT ![p] = FALSE]
    /\ ok' = [ok EXCEPT ![p] = TRUE]
    /\ timer' = [timer EXCEPT ![p] = "none"]
    /\ disturbed' = [disturbed EXCEPT ![p] = FALSE]

Crash(p) ==
    /\ pc[p] # "off"
    /\ crashes < MaxCrashes
    /\ crashes' = crashes + 1
    /\ CrashEffects(p)
    /\ step' = [Step("crash", p) EXCEPT !.srv = FALSE]
    /\ UNCHANGED <<file, inits, sends>>

\* ---------------------------------------------------- command lines
\* A line is the sequence of its pieces: a space, a double quote, or a run
\* of other characters.
Space == " "
Quote == "\""

CheckLine == <<"--check">>

RequestLine ==
    <<"--request", Space, "foo", Space, Quote, "bar", Space, "baz", Quote>>

HelloLine == <<"hello", Space, "world">>

Lines ==
    { CheckLine,
      <<"--check", Space, "now">>,
      RequestLine,
      <<"--request">>,
      HelloLine,
      <<Quote, "hello", Space, Space, "world", Quote, Space>>,
      <<Space>> }

\* What sendMessage() may be handed: a line, or nothing.
Payloads == Lines \cup {<<>>}

\* QManagedRequest::splitArguments: spaces separate the arguments, a quoted
\* substring stays in one argument and loses its quotes.
RECURSIVE Split(_, _, _, _, _)
Split(rest, toks, cur, inTok, quoted) ==
    IF rest = <<>>
    THEN IF inTok THEN Append(toks, cur) ELSE toks
    ELSE LET c == Head(rest)
             t == Tail(rest)
         IN IF c = Quote THEN Split(t, toks, cur, TRUE, ~quoted)
            ELSE IF c = Space /\ ~quoted
                 THEN Split(t, IF inTok THEN Append(toks, cur) ELSE toks,
                            "", FALSE, FALSE)
                 ELSE Split(t, toks, cur \o c, TRUE, quoted)

splitArguments(msg) == Split(msg, <<>>, "", FALSE, FALSE)

\* ---------------------------------------------- message(), lines 300-320
\* The reply sent, and the line then passed on as a message as well.
CheckOutcome_FallsThrough(msg, argv) ==
    [reply |-> Alive, emits |-> <<"message">>, payload |-> msg,
     crash |-> FALSE]

\* Line 313: s->send("[ALIVE]").
CheckOutcome(msg, argv) ==
    [reply |-> Alive, emits |-> <<>>, payload |-> <<>>, crash |-> FALSE]

\* The request emitted with the verb still in front.
RequestOutcome_KeepsVerb(msg, argv) ==
    [reply |-> "", emits |-> <<"request">>, payload |-> argv, crash |-> FALSE]

\* Lines 315-316: argv.removeAt(0); emit request(argv).
RequestOutcome(msg, argv) ==
    [reply |-> "", emits |-> <<"request">>, payload |-> Tail(argv),
     crash |-> FALSE]

\* The arguments joined by single spaces.
RECURSIVE JoinArgs(_)
JoinArgs(argv) ==
    IF Len(argv) <= 1 THEN argv
    ELSE <<Head(argv), Space>> \o JoinArgs(Tail(argv))

\* The message emitted from the split arguments, not from the line.
MessageOutcome_Rejoined(msg, argv) ==
    [reply |-> "", emits |-> <<"message">>, payload |-> JoinArgs(argv),
     crash |-> FALSE]

\* Line 318: emit message(msg).
MessageOutcome(msg, argv) ==
    [reply |-> "", emits |-> <<"message">>, payload |-> msg, crash |-> FALSE]

\* Lines 307-319, for a line with a first argument.
Dispatched(msg) ==
    LET argv == splitArguments(msg)
        cmd == argv[1]
    IN IF cmd = "--check" THEN CheckOutcome(msg, argv)
       ELSE IF cmd = "--request" THEN RequestOutcome(msg, argv)
       ELSE MessageOutcome(msg, argv)

\* message() without the test of pServer, answering as a server would.
Ignored_Answers ==
    [reply |-> Alive, emits |-> <<"message">>, payload |-> <<>>,
     crash |-> FALSE]

\* Line 302: a process without a server returns at once.
Ignored == [reply |-> "", emits |-> <<>>, payload |-> <<>>, crash |-> FALSE]

Crashed == [reply |-> "", emits |-> <<>>, payload |-> <<>>, crash |-> TRUE]

\* Line 308: argv.at(0) of an empty list is out of range: a build with
\* assertions aborts, one without reads past the list, and then either
\* faults or compares some bytes that equal neither verb.
Outcomes(msg) ==
    IF splitArguments(msg) = <<>>
    THEN {Crashed, MessageOutcome(msg, <<>>)}
    ELSE {Dispatched(msg)}

\* message(msg, s) for the "--check" a probing process sent.
DispatchProbe(q, p) ==
    /\ pc[q] = "idle"
    /\ probe[p].st = "accepted"
    /\ probe[p].sent
    /\ probe[p].reply = ""
    /\ OwnerOf(probe[p].to) = q
    /\ LET o == IF pServer[q] THEN Dispatched(CheckLine) ELSE Ignored
       IN /\ probe' = [probe EXCEPT ![p] =
                         IF o.reply # ""
                         THEN [probe[p] EXCEPT !.reply = o.reply]
                         ELSE [probe[p] EXCEPT !.st = "stuck"]]
          /\ step' = [Step("message", q) EXCEPT
                        !.line = CheckLine, !.reply = o.reply,
                        !.emits = o.emits, !.payload = o.payload,
                        !.from = p, !.port = probe[p].to, !.via = "probe"]
    /\ UNCHANGED <<pc, pServer, srvPort, m_port, m_addr, found, ok, timer,
                   owner, file, conns, disturbed, inits, crashes, sends>>

\* A line read only once every socket accepted before has given its line.
Deliverable_InTurn(q, c) ==
    /\ conns[c].st = "accepted"
    /\ conns[c].kind = "send"
    /\ OwnerOf(conns[c].to) = q
    /\ ~\E p \in Procs : /\ probe[p].st = "accepted"
                         /\ ~probe[p].sent
                         /\ OwnerOf(probe[p].to) = q

\* Lines 334-337: every accepted socket gets a QManagedSocket of its own,
\* with its message() signal connected to message(): the line of a socket
\* is dispatched when that socket has it, whatever the others hold.
Deliverable(q, c) ==
    /\ conns[c].st = "accepted"
    /\ conns[c].kind = "send"
    /\ OwnerOf(conns[c].to) = q

\* message(msg, s) for a line sendMessage() delivered.
DispatchConn(q, c) ==
    /\ pc[q] = "idle"
    /\ Deliverable(q, c)
    /\ \E o \in (IF pServer[q] THEN Outcomes(conns[c].data) ELSE {Ignored}) :
         /\ step' = [Step("message", q) EXCEPT
                       !.line = conns[c].data, !.reply = o.reply,
                       !.emits = o.emits, !.payload = o.payload,
                       !.from = conns[c].from, !.port = conns[c].to,
                       !.via = "send",
                       !.n = IF o.crash THEN 1 ELSE 0]
         /\ IF o.crash
            THEN CrashEffects(q)
            ELSE /\ conns' = [conns EXCEPT ![c] = NoConn]
                 /\ UNCHANGED <<pc, pServer, srvPort, m_port, m_addr, found,
                                ok, probe, timer, owner, disturbed>>
    /\ UNCHANGED <<file, inits, crashes, sends>>

\* ------------------------------------------- connection(), lines 325-339
\* newConnection() of any server object the process still has runs
\* connection(), which returns without a current server and otherwise takes
\* every connection queued at the current server.  A connection queued at a
\* server object that is no longer pServer is never taken.
Accept(q) ==
    /\ pc[q] = "idle"
    /\ \/ \E p \in Procs : probe[p].st = "pending" /\ OwnerOf(probe[p].to) = q
       \/ \E c \in ConnIds : conns[c].st = "pending" /\ OwnerOf(conns[c].to) = q
    /\ LET taken(port) == pServer[q] /\ port = srvPort[q]
           np == Cardinality({p \in Procs : probe[p].st = "pending"
                                            /\ taken(probe[p].to)})
           nc == Cardinality({c \in ConnIds : conns[c].st = "pending"
                                              /\ taken(conns[c].to)})
       IN /\ probe' = [p \in Procs |->
                IF probe[p].st = "pending" /\ OwnerOf(probe[p].to) = q
                THEN [probe[p] EXCEPT
                        !.st = IF taken(probe[p].to) THEN "accepted" ELSE "stuck"]
                ELSE probe[p]]
          /\ conns' = [c \in ConnIds |->
                IF conns[c].st = "pending" /\ OwnerOf(conns[c].to) = q
                THEN IF taken(conns[c].to) /\ conns[c].kind = "send"
                     THEN [conns[c] EXCEPT !.st = "accepted"]
                     ELSE NoConn
                ELSE conns[c]]
          /\ step' = [Step("connection", q) EXCEPT !.n = np + nc]
    /\ UNCHANGED <<pc, pServer, srvPort, m_port, m_addr, found, ok, timer,
                   owner, file, disturbed, inits, crashes, sends>>

\* ------------------------------------------ sendMessage(), lines 102-117
\* The guard without the test of the role.
Sends_AnyRole(p, msg) == Len(msg) > 0

\* Line 104: only a client with a non-empty payload sends.
Sends(p, msg) == ~pServer[p] /\ Len(msg) > 0

\* connectToHost, waitForConnected, write, waitForBytesWritten; the socket
\* is left open.  Nothing tells the caller that a connection failed.
SendMessage(p, msg) ==
    /\ pc[p] = "idle"
    /\ sends < MaxSends
    /\ sends' = sends + 1
    /\ FreeConns # {}
    /\ LET up == m_addr[p] # NullAddr /\ Listening(m_port[p])
           goes == Sends(p, msg)
       IN /\ conns' = IF goes /\ up
                      THEN Connected([kind |-> "send", from |-> p,
                                      to |-> m_port[p], data |-> msg,
                                      st |-> "pending"])
                      ELSE conns
          /\ step' = [Step("sendMessage", p) EXCEPT
                        !.line = msg, !.port = m_port[p],
                        !.n = IF goes THEN 1 ELSE 0]
    /\ UNCHANGED <<pc, pServer, srvPort, m_port, m_addr, found, ok, probe,
                   timer, owner, file, disturbed, inits, crashes>>

\* --------------------------------------------------------- the system
Next ==
    \/ \E p \in Procs : InitBind(p)
    \/ \E p \in Procs : InitExists(p)
    \/ \E p \in Procs : InitRead(p)
    \/ \E p \in Procs : InitConnect(p)
    \/ \E p \in Procs : InitWrite(p)
    \/ \E p \in Procs : InitReply(p)
    \/ \E p \in Procs : InitTimeout(p)
    \/ \E p \in Procs : InitRemove(p)
    \/ \E p \in Procs : InitDecide(p)
    \/ \E p \in Procs : InitLeader(p)
    \/ \E p \in Procs : InitFollower(p)
    \/ \E p \in Procs : Run(p)
    \/ \E p \in Procs : Tick(p)
    \/ \E p \in Procs : Close(p)
    \/ \E p \in Procs : Crash(p)
    \/ \E p \in Procs : Accept(p)
    \/ \E q, p \in Procs : DispatchProbe(q, p)
    \/ \E q \in Procs, c \in ConnIds : DispatchConn(q, c)
    \/ \E p \in Procs, msg \in Payloads : SendMessage(p, msg)

Spec == Init /\ [][Next]_vars

\* The worker thread start() launched gets to run, and the 100 ms timer of
\* a client keeps firing while its event loop runs.
Fairness == \A p \in Procs : WF_vars(Run(p)) /\ WF_vars(Tick(p))

SpecFair == Spec /\ Fairness

\* ------------------------------------------------------------ roles
\* The process is out of init() and isServer() is true.
Leader(p) == pc[p] = "idle" /\ pServer[p]

\* The process is out of init() and isServer() is false.
Follower(p) == pc[p] = "idle" /\ ~pServer[p]

\* The registry file names the endpoint this server recorded for itself.
Registered(p) ==
    /\ Leader(p)
    /\ m_port[p] # 0
    /\ file = Entry(m_port[p], AddrToString(m_addr[p]))

\* The election that ended in the last step, and the first token of the line
\* the last step dispatched.
ElectionEnded == step.op = "initDone"

FirstToken(msg) ==
    IF splitArguments(msg) = <<>> THEN "" ELSE splitArguments(msg)[1]

ServerGot(verbs) ==
    /\ step.op = "message"
    /\ step.srv
    /\ splitArguments(step.line) # <<>>
    /\ FirstToken(step.line) \in verbs

\* ------------------------------------------------------------------ C1
\* C1, as claimed: at any time, under any interleaving of the election
\* steps, at most one process holds the Leader role.
C1_AtMostOneLeader == Cardinality({p \in Procs : Leader(p)}) <= 1

\* C1, amended: at any time at most one process in the Leader role is the
\* one the registry file names; elections that interleave can leave several
\* processes in the Leader role.
C1_AtMostOneRegisteredLeader ==
    Cardinality({p \in Procs : Registered(p)}) <= 1

\* Two servers at once, one of them the registered one.
C1_Witness ==
    \E p, q \in Procs :
        p # q /\ Leader(p) /\ Leader(q) /\ Registered(p) /\ ~Registered(q)

\* ------------------------------------------------------------------ C2
\* C2: an init() that runs while no registry file exists (none at line 235,
\* and no other process writes one meanwhile) ends with the process a server
\* and the registry file recording its own listener's port and address.
C2_NoFileBecomesLeader ==
    (ElectionEnded /\ ~step.found /\ step.clean) =>
        /\ Leader(step.proc)
        /\ step.emits = <<"gotServerRole", "serverRoleChanged(true)">>
        /\ file = Entry(srvPort[step.proc],
                        AddrToString(ServerAddress(step.proc)))
        /\ srvPort[step.proc] # 0 => OwnerOf(srvPort[step.proc]) = step.proc

C2_Witness ==
    /\ ElectionEnded /\ ~step.found /\ step.clean
    /\ Leader(step.proc)
    /\ srvPort[step.proc] # 0
    /\ file.port = srvPort[step.proc]

\* ------------------------------------------------------------------ C3
\* C3: an init() that finds the registry file naming an endpoint that
\* answers "--check" with "[ALIVE]", the file untouched by others meanwhile,
\* ends with the process a client, its provisional listener closed, and the
\* registry file still the one it read.
C3_LiveLeaderBecomesFollower ==
    (ElectionEnded /\ step.found /\ step.ok /\ step.clean) =>
        /\ Follower(step.proc)
        /\ srvPort[step.proc] = 0
        /\ step.listen # 0 => OwnerOf(step.listen) = 0
        /\ step.emits = <<"serverRoleChanged(false)">>
        /\ file = Entry(m_port[step.proc], AddrToString(m_addr[step.proc]))

C3_Witness ==
    /\ ElectionEnded /\ step.found /\ step.ok /\ step.clean
    /\ Follower(step.proc)
    /\ step.listen # 0
    /\ \E q \in Procs : Registered(q) /\ m_port[q] = m_port[step.proc]

\* ------------------------------------------------------------------ C4
\* C4: an init() that finds the registry file naming an endpoint (or a
\* corrupt entry) that fails the probe, the file untouched by others
\* meanwhile, has deleted the file when it reaches line 272 and ends with
\* the process a server and a fresh registry entry for its own listener.
C4_StaleFileBecomesLeader ==
    /\ \A p \in Procs :
         (pc[p] = "exists2" /\ found[p] /\ ~ok[p] /\ ~disturbed[p])
             => ~file.exists
    /\ (ElectionEnded /\ step.found /\ ~step.ok /\ step.clean) =>
         /\ Leader(step.proc)
         /\ file = Entry(srvPort[step.proc],
                         AddrToString(ServerAddress(step.proc)))
         /\ m_port[step.proc] = srvPort[step.proc]

\* The probe got bytes other than "[ALIVE]".
C4_Witness ==
    /\ ElectionEnded /\ step.found /\ ~step.ok /\ step.clean
    /\ step.port = NoisyPort
    /\ Leader(step.proc)
    /\ file.port = srvPort[step.proc]

\* ------------------------------------------------------------------ C5
\* C5, as claimed: of two close() calls in a row, in whatever role, the
\* second changes nothing, and afterwards the registry file is absent, the
\* listener is unbound and isServer() is false.
C5_CloseTwiceFileAbsent ==
    [][(step'.op = "close" /\ step'.rep) =>
          /\ UNCHANGED progVars
          /\ ~pServer'[step'.proc]
          /\ srvPort'[step'.proc] = 0
          /\ ~file'.exists]_vars

\* C5, amended: a close() of a channel without a server changes nothing, so
\* the second of two calls in a row changes nothing; after close()
\* isServer() is false and the listener pServer held is unbound; the
\* registry file is absent after the calls if the channel was a server at
\* the first of them, and a client's close() leaves the file as it is.
C5_CloseTwice ==
    [][(step'.op = "close") =>
          /\ ~pServer[step'.proc] => UNCHANGED progVars
          /\ ~pServer'[step'.proc]
          /\ srvPort'[step'.proc] = 0
          /\ step'.rep =>
               /\ UNCHANGED progVars
               /\ step'.port \in Ports => owner'[step'.port] = 0
               /\ step'.srv => ~file'.exists]_vars

\* A server closed twice in a row.
C5_Witness ==
    /\ step.op = "close" /\ step.rep /\ step.srv /\ step.port # 0
    /\ ~pServer[step.proc]
    /\ ~file.exists

\* ------------------------------------------------------------------ C6
\* A client whose worker thread is started or running its timer.
FollowerRunning(p) == Follower(p) /\ timer[p] \in {"starting", "on"}

\* The client recorded a port of this application, and every other process
\* has closed or crashed: none has a server object or is in an election.
LeaderGone(p) ==
    /\ m_port[p] \in Ports
    /\ \A q \in Procs \ {p} : pc[q] \in {"off", "idle"} /\ ~pServer[q]

\* The last step was a check() of the client that raised connectionLost().
RaisedLost(p) ==
    step.op = "check" /\ step.proc = p /\ step.emits = <<"connectionLost">>

\* No process has a bound listener other than that of its current server.
NoLeakedListener ==
    \A k \in Ports : owner[k] # 0 => pServer[owner[k]] /\ srvPort[owner[k]] = k

\* C6: a running client whose leader has closed or crashed eventually
\* raises connectionLost(), unless it stops being a running client or a
\* process comes back first.
C6_EventuallyLost ==
    \A p \in Procs :
        (FollowerRunning(p) /\ LeaderGone(p)) ~>
            (RaisedLost(p) \/ ~FollowerRunning(p) \/ ~LeaderGone(p))

\* C6, where it holds: with no listener left bound by an earlier
\* reconnect(), the client does eventually raise connectionLost().
C6_LostUnlessLeaked ==
    \A p \in Procs :
        (FollowerRunning(p) /\ LeaderGone(p) /\ NoLeakedListener) ~>
            (RaisedLost(p) \/ ~FollowerRunning(p) \/ ~LeaderGone(p))

\* The leader closed after a reconnect() and the port the client checks is
\* still bound by the listener that reconnect() left behind.
C6_LeakedListenerAnswers ==
    \E p \in Procs :
        /\ FollowerRunning(p) /\ LeaderGone(p)
        /\ owner[m_port[p]] # 0

\* ------------------------------------------------------------------ C7
\* The endpoint check() connected to in the last step accepts connections.
CheckedUp == m_addr[step.proc] # NullAddr /\ Listening(step.port)

\* C7, as claimed: once a client has raised connectionLost(), the next tick
\* of its timer, with the leader still unreachable and no election re-run,
\* raises no further connectionLost().
C7_LostOnce == (step.op = "check" /\ ~step.srv /\ step.rep) => step.emits = <<>>

\* C7, amended: every tick whose connection to the recorded endpoint fails
\* raises exactly one connectionLost(), also when the tick before raised
\* it: while the leader stays unreachable the signal is raised once per
\* tick, until the client re-runs the election.
C7_LostEveryTick ==
    step.op = "check" =>
        /\ step.emits = IF CheckedUp THEN <<>> ELSE <<"connectionLost">>
        /\ step.rep => step.emits = <<"connectionLost">>

\* A client's second connectionLost() in a row for a port nothing listens on.
C7_Witness ==
    /\ step.op = "check" /\ ~step.srv /\ step.rep
    /\ step.port \in Ports /\ owner[step.port] = 0
    /\ step.emits = <<"connectionLost">>

\* ------------------------------------------------------------------ C8
\* C8: a line whose first token is "--check", received by a server, is
\* answered with exactly "[ALIVE]" on the connection it came on, and no
\* signal is emitted.
C8_CheckRepliesAlive ==
    ServerGot({"--check"}) =>
        /\ step.reply = Alive
        /\ step.emits = <<>>
        /\ step.via = "probe" =>
             /\ probe[step.from].reply = Alive
             /\ probe[step.from].to = step.port

\* "--check now", sent by a client's sendMessage().
C8_Witness ==
    /\ ServerGot({"--check"})
    /\ step.line = <<"--check", Space, "now">>
    /\ step.reply = Alive

\* ------------------------------------------------------------------ C9
\* C9: a line whose first token is "--request", received by a server, gives
\* exactly one request() whose arguments are the line's tokens without the
\* first, and no reply; --request foo "bar baz" gives ["foo", "bar baz"].
C9_RequestArgs ==
    ServerGot({"--request"}) =>
        /\ step.emits = <<"request">>
        /\ step.payload = Tail(splitArguments(step.line))
        /\ step.reply = ""
        /\ step.line = RequestLine => step.payload = <<"foo", "bar baz">>

C9_Witness ==
    /\ ServerGot({"--request"})
    /\ step.line = RequestLine
    /\ step.emits = <<"request">>
    /\ step.payload = <<"foo", "bar baz">>

\* ----------------------------------------------------------------- C10
\* C10: a line whose first token is neither verb, received by a server,
\* gives exactly one message() carrying the whole line as it came, and no
\* reply.
C10_OpaqueMessage ==
    (/\ step.op = "message"
     /\ step.srv
     /\ splitArguments(step.line) # <<>>
     /\ FirstToken(step.line) \notin {"--check", "--request"}) =>
        /\ step.emits = <<"message">>
        /\ step.payload = step.line
        /\ step.reply = ""

C10_Witness ==
    /\ step.op = "message" /\ step.srv
    /\ step.line = HelloLine
    /\ step.emits = <<"message">>
    /\ step.payload = HelloLine

\* ----------------------------------------------------------------- C11
\* C11: sendMessage() called by a process holding a server, whatever the
\* payload, or with an empty payload, whatever the role, opens no
\* connection and writes nothing: no socket of any process changes.
C11_NoSendAsLeaderOrEmpty ==
    [][(step'.op = "sendMessage"
        /\ (pServer[step'.proc] \/ step'.line = <<>>)) =>
           /\ conns' = conns
           /\ probe' = probe
           /\ owner' = owner
           /\ step'.n = 0]_vars

\* A server asked to send "hello world" while its own recorded endpoint
\* accepts connections.
C11_Witness ==
    /\ step.op = "sendMessage" /\ step.srv
    /\ step.line = HelloLine
    /\ Listening(step.port)
    /\ step.n = 0

\* ----------------------------------------------------------------- C12
\* The ports on which listeners of the process are bound.
BoundPorts(p) == {k \in Ports : owner[k] = p}

\* C12: init() tears down the listener the process already has before it
\* binds the new one, so a process has at most one bound listener at any
\* time, and none of an earlier election once reconnect() has returned.
C12_AtMostOneListener == \A p \in Procs : Cardinality(BoundPorts(p)) <= 1

\* A server back from reconnect() with the listener of its earlier
\* election still bound beside the new one.
C12_PreviousListenerBound ==
    \E p \in Procs :
        /\ Leader(p)
        /\ srvPort[p] \in BoundPorts(p)
        /\ BoundPorts(p) \ {srvPort[p]} # {}

\* ----------------------------------------------------------------- C13
\* C13: close() halts the worker loop and the timer, so no check() of the
\* process runs once its close() has returned.
C13_NoCheckAfterClose ==
    [][~(/\ step.op = "close"
         /\ step'.op = "check"
         /\ step'.proc = step.proc)]_vars

\* ----------------------------------------------------------------- C14
\* The endpoint is the listener of a process's current server, the only
\* kind of endpoint in the model that answers "--check" with "[ALIVE]".
AnswersAlive(port) ==
    /\ port \in Ports
    /\ owner[port] # 0
    /\ pServer[owner[port]]
    /\ srvPort[owner[port]] = port

\* C14: check() applies the rule of the election probe: an endpoint that
\* would not answer "--check" with "[ALIVE]", also one that accepts the
\* connection and stays silent, is reported through connectionLost().
C14_CheckUsesProbeRule ==
    (step.op = "check" /\ ~AnswersAlive(step.port)) =>
        step.emits = <<"connectionLost">>

\* check() passed an endpoint of another program that accepts connections
\* and never replies.
C14_MuteEndpointPasses ==
    step.op = "check" /\ step.port = MutePort /\ step.emits = <<>>

\* ----------------------------------------------------------------- C15
\* C15: every line a server dispatches, also one without any token, ends
\* in exactly one of the three outcomes (the reply "[ALIVE]", one
\* request(), one message()) and never in a failure; a line without a
\* recognized verb is passed on as a message.
C15_DispatchNeverFails ==
    (step.op = "message" /\ step.srv) =>
        /\ step.n = 0
        /\ \/ step.reply = Alive /\ step.emits = <<>>
           \/ step.reply = "" /\ step.emits = <<"request">>
           \/ step.reply = "" /\ step.emits = <<"message">>
        /\ FirstToken(step.line) \notin {"--check", "--request"} =>
               step.emits = <<"message">> /\ step.payload = step.line

\* The server died dispatching a line that holds a single space.
C15_BlankLineFails ==
    /\ step.op = "message" /\ step.srv
    /\ step.line = <<Space>>
    /\ step.n = 1
    /\ pc[step.proc] = "off"

\* ----------------------------------------------------------------- C16
\* init() read a corrupt entry: no port, or an address that does not parse.
CorruptRead(p) == found[p] /\ (m_port[p] = 0 \/ m_addr[p] = NullAddr)

\* C16: init() treats a corrupt registry entry as no leader: it makes no
\* connection attempt to it, it has deleted the file when it reaches line
\* 272, and, the file untouched by others meanwhile, it ends with the
\* process a server and a fresh registry entry for its own listener.
C16_CorruptFileBecomesLeader ==
    /\ \A p \in Procs :
         /\ pc[p] \in {"connect", "write", "wait"} => ~CorruptRead(p)
         /\ (pc[p] \in {"remove", "exists2", "leader", "follower"}
             /\ CorruptRead(p)) => ~ok[p] /\ probe[p] = NoProbe
         /\ (pc[p] = "exists2" /\ CorruptRead(p) /\ ~disturbed[p])
                => ~file.exists
         /\ (pc[p] = "follower" /\ CorruptRead(p)) => disturbed[p]
    /\ (ElectionEnded /\ step.found /\ step.port = 0 /\ step.clean) =>
         /\ ~step.ok
         /\ Leader(step.proc)
         /\ step.emits = <<"gotServerRole", "serverRoleChanged(true)">>
         /\ file = Entry(srvPort[step.proc],
                         AddrToString(ServerAddress(step.proc)))

\* An election that read port 0 from the file and ended with the process a
\* server on a bound port of its own.
C16_Witness ==
    /\ ElectionEnded /\ step.found /\ step.port = 0 /\ step.clean
    /\ Leader(step.proc)
    /\ srvPort[step.proc] \in Ports
    /\ file.port = srvPort[step.proc]

\* An election at line 272 after an entry whose address did not parse.
C16_WitnessAddress ==
    \E p \in Procs :
        /\ pc[p] = "leader" /\ found[p] /\ ~disturbed[p]
        /\ m_port[p] # 0 /\ m_addr[p] = NullAddr
        /\ ~file.exists

\* ----------------------------------------------------------------- C17
\* A connection the server accepted whose client has not written its line.
AcceptedSilent(q) ==
    {p \in Procs : /\ probe[p].st = "accepted"
                   /\ ~probe[p].sent
                   /\ probe[p].to = srvPort[q]}

\* The connections the server accepted whose line has arrived.
AcceptedLines(q) ==
    {c \in ConnIds : /\ conns[c].st = "accepted"
                     /\ conns[c].kind = "send"
                     /\ conns[c].to = srvPort[q]}

C18_OneRoleSignalPerElection ==
    /\ step.op = "init" => step.emits = <<>>
    /\ ElectionEnded =>
         step.emits = IF pServer[step.proc]
                      THEN <<"gotServerRole", "serverRoleChanged(true)">>
                      ELSE <<"serverRoleChanged(false)">>

\* An election that found a live server and ended with the process a
\* client.
C18_Witness ==
    /\ ElectionEnded
    /\ step.found /\ step.ok
    /\ ~pServer[step.proc]
    /\ step.emits = <<"serverRoleChanged(false)">>

\* ----------------------------------------------------------------- C19
\* C19: close() never deletes a registry entry that records another
\* process, a server still running: it removes the file only when the
\* file records the closing server's own address and port.
C19_CloseKeepsOthersEntry ==
    [][(/\ step'.op = "close"
        /\ \E q \in Procs \ {step'.proc} : Registered(q)) =>
           file' = file]_vars

\* ----------------------------------------------------------------- C20
\* C20: a process that holds no server, a client or a server after its
\* close(), emits neither message() nor request(), replies nothing and
\* accepts no pending connection (n counts those a connection() took), also
\* for a line or a connection that came in while it was a server.
C20_NonLeaderIgnores ==
    (step.op \in {"message", "connection"} /\ ~step.srv) =>
        /\ step.emits = <<>>
        /\ step.reply = ""
        /\ step.payload = <<>>
        /\ step.n = 0
        /\ step.via = "probe" => probe[step.from].reply = ""

\* "hello world", accepted while the process was a server, delivered after
\* its close().
C20_Witness ==
    /\ step.op = "message" /\ ~step.srv
    /\ step.line = HelloLine
    /\ step.emits = <<>>
    /\ ~pServer[step.proc]

\* connection() run for a connection queued at a process without a server.
C20_WitnessConnection ==
    step.op = "connection" /\ ~step.srv /\ step.n = 0

====
